---- MODULE Spec2Model ----
(***************************************************************************)
(* Command pattern with undo/redo: Document, AddTextCommand,               *)
(* RemoveTextCommand and DocumentEditor (src/unnamed/part_004, 1102-1193). *)
(* A string is a sequence of characters; a command object is an entry of   *)
(* the heap `commands`, named by its index.                                *)
(* The other examples of the repository follow, each with its own variable *)
(* and specification: the handler chain, the bank accounts, @ReadOnly, the *)
(* namespaced EventEmitter, the observer Subject, @Retry, the              *)
(* DatabaseConnection singleton and the Repository.                        *)
(***************************************************************************)
EXTENDS Integers, Sequences, FiniteSets, TLC

\* ---- bounds ----
MaxCmds == 2      \* command objects constructed in one run
MaxHist == 2      \* commands executeCommand may leave in history
MaxLen == 2       \* longest content an editor call may produce
MaxDocLen == 4    \* longest content a direct addText may produce
MaxCount == 2     \* largest count handed to removeText
MaxAllCmds == 1   \* command objects in a run that mixes editor and direct document calls
MaxAllHist == 1   \* commands executeCommand may leave in history in such a run
MaxAllLen == 1    \* longest content a call may produce in such a run
MaxAllCount == 1  \* largest count handed to removeText in such a run

Texts == {<<"a">>, <<"b">>}
DocTexts == Texts \cup {<<>>}     \* texts handed to addText directly, the empty text included
Counts == 0..MaxCount

VARIABLES content, commands, history, currentPosition, lastOp, lastArg, invoked, before,
          lastText, returned, threw, constructedAt

\* The other programs of the repository, one variable each: the handler chain,
\* the bank account, the object with a @ReadOnly property, the namespaced
\* EventEmitter, the observer Subject, the @Retry method, the DatabaseConnection
\* singleton and the Repository.
VARIABLES chain, account, readOnly, emitter, subject, retry, database, repository

editorVars == <<content, commands, history, currentPosition, lastOp, lastArg, invoked, before,
                lastText, returned, threw, constructedAt>>

others == <<chain, account, readOnly, emitter, subject, retry, database, repository>>

vars == <<content, commands, history, currentPosition, lastOp, lastArg, invoked, before,
          lastText, returned, threw, constructedAt,
          chain, account, readOnly, emitter, subject, retry, database, repository>>

Max(a, b) == IF a > b THEN a ELSE b
Min(a, b) == IF a < b THEN a ELSE b

\* String.prototype.slice(start, end) as used by removeText: a negative index
\* counts from the end, every index is clamped to [0, length], and an empty
\* range gives the empty string.  -0 is 0, so slice(0, -0) is slice(0, 0).
Slice(s, start, end) ==
    LET len == Len(s)
        from == IF start < 0 THEN Max(len + start, 0) ELSE Min(start, len)
        to == IF end < 0 THEN Max(len + end, 0) ELSE Min(end, len)
    IN SubSeq(s, from + 1, to)

\* ---- Document ----
\* addText that puts the text in front.
addTextPrepend(c, text) == text \o c

addText(c, text) == c \o text

\* removeText that returns early when asked for more than the buffer holds.
removeTextNoClamp(c, length) ==
    IF length > Len(c) THEN c ELSE Slice(c, 0, -length)

removeText(c, length) == Slice(c, 0, -length)

\* getContent that drops the last character.
getContentShort(c) == Slice(c, 0, -1)

getContent(c) == c

setContent(c, newContent) == newContent

\* ---- commands ----
AddTextCommand(document, text) ==
    [kind |-> "add", text |-> text, length |-> 0, previousContent |-> document]

RemoveTextCommand(document, length) ==
    [kind |-> "remove", text |-> <<>>, length |-> length, previousContent |-> document]

execute(cmd, c) ==
    IF cmd.kind = "add" THEN addText(c, cmd.text) ELSE removeText(c, cmd.length)

\* undo that takes the added text back off instead of restoring the snapshot.
undoCommandInverse(cmd, c) ==
    IF cmd.kind = "add" THEN Slice(c, 0, Len(c) - Len(cmd.text))
    ELSE setContent(c, cmd.previousContent)

undoCommand(cmd, c) == setContent(c, cmd.previousContent)

\* execute() that captures the content again.
commandAfterRecapture(cmd, method, c) ==
    IF method = "execute" THEN [cmd EXCEPT !.previousContent = c] ELSE cmd

\* The command object after its own execute() or undo() ran on the content c:
\* neither method assigns a field.
commandAfter(cmd, method, c) == cmd

\* The heap after a handler invoked the methods listed in inv on the content c.
heapAfter(cmds, inv, c) ==
    [i \in DOMAIN cmds |->
        IF inv # <<>> /\ inv[1][1] = i THEN commandAfter(cmds[i], inv[1][2], c) ELSE cmds[i]]

\* ---- DocumentEditor ----
\* Each handler gives the editor's fields and the document content after the
\* call, the command methods it invoked, and whether it raised (a method called
\* on an undefined history element is a TypeError), from the values before the call.
\* executeCommand that pushes without cutting the redo branch.
executeCommandNoSlice(cmds, h, p, c, id) ==
    [history |-> Append(h, id),
     currentPosition |-> p + 1,
     content |-> execute(cmds[id], c),
     invoked |-> <<<<id, "execute">>>>,
     threw |-> FALSE]

\* executeCommand that cuts with history.slice(0, currentPosition).
executeCommandSliceShort(cmds, h, p, c, id) ==
    [history |-> Append(Slice(h, 0, p), id),
     currentPosition |-> p + 1,
     content |-> execute(cmds[id], c),
     invoked |-> <<<<id, "execute">>>>,
     threw |-> FALSE]

\* executeCommand that forgets currentPosition++.
executeCommandNoIncrement(cmds, h, p, c, id) ==
    [history |-> Append(SubSeq(h, 1, p + 1), id),
     currentPosition |-> p,
     content |-> execute(cmds[id], c),
     invoked |-> <<<<id, "execute">>>>,
     threw |-> FALSE]

executeCommand(cmds, h, p, c, id) ==
    [history |-> Append(SubSeq(h, 1, p + 1), id),
     currentPosition |-> p + 1,
     content |-> execute(cmds[id], c),
     invoked |-> <<<<id, "execute">>>>,
     threw |-> FALSE]

\* undo that decrements currentPosition outside the guard.
undoDecrementsAlways(cmds, h, p, c) ==
    IF p >= 0
    THEN [history |-> h,
          currentPosition |-> p - 1,
          content |-> undoCommand(cmds[h[p + 1]], c),
          invoked |-> <<<<h[p + 1], "undo">>>>,
          threw |-> FALSE]
    ELSE [history |-> h, currentPosition |-> p - 1, content |-> c, invoked |-> <<>>,
          threw |-> FALSE]

\* undo that decrements currentPosition before it reads history[currentPosition].
undoDecrementsFirst(cmds, h, p, c) ==
    IF p >= 0
    THEN IF p \in DOMAIN h
         THEN [history |-> h,
               currentPosition |-> p - 1,
               content |-> undoCommand(cmds[h[p]], c),
               invoked |-> <<<<h[p], "undo">>>>,
               threw |-> FALSE]
         ELSE [history |-> h, currentPosition |-> p - 1, content |-> c, invoked |-> <<>>,
               threw |-> TRUE]
    ELSE [history |-> h, currentPosition |-> p, content |-> c, invoked |-> <<>>,
          threw |-> FALSE]

\* undo that pops the undone command off history.
undoPopsHistory(cmds, h, p, c) ==
    IF p >= 0
    THEN IF (p + 1) \in DOMAIN h
         THEN [history |-> SubSeq(h, 1, p),
               currentPosition |-> p - 1,
               content |-> undoCommand(cmds[h[p + 1]], c),
               invoked |-> <<<<h[p + 1], "undo">>>>,
               threw |-> FALSE]
         ELSE [history |-> h, currentPosition |-> p, content |-> c, invoked |-> <<>>,
               threw |-> TRUE]
    ELSE [history |-> h, currentPosition |-> p, content |-> c, invoked |-> <<>>,
          threw |-> FALSE]

\* history[currentPosition] is undefined outside the array, and command.undo()
\* then raises before currentPosition is decremented.
undo(cmds, h, p, c) ==
    IF p >= 0
    THEN IF (p + 1) \in DOMAIN h
         THEN [history |-> h,
               currentPosition |-> p - 1,
               content |-> undoCommand(cmds[h[p + 1]], c),
               invoked |-> <<<<h[p + 1], "undo">>>>,
               threw |-> FALSE]
         ELSE [history |-> h, currentPosition |-> p, content |-> c, invoked |-> <<>>,
               threw |-> TRUE]
    ELSE [history |-> h, currentPosition |-> p, content |-> c, invoked |-> <<>>,
          threw |-> FALSE]

\* redo guarded by currentPosition < history.length: at the newest command it
\* increments currentPosition and then finds no command to execute.
redoGuardOffByOne(cmds, h, p, c) ==
    IF p < Len(h) - 1
    THEN [history |-> h,
          currentPosition |-> p + 1,
          content |-> execute(cmds[h[p + 2]], c),
          invoked |-> <<<<h[p + 2], "execute">>>>,
          threw |-> FALSE]
    ELSE IF p < Len(h)
    THEN [history |-> h, currentPosition |-> p + 1, content |-> c, invoked |-> <<>>,
          threw |-> TRUE]
    ELSE [history |-> h, currentPosition |-> p, content |-> c, invoked |-> <<>>,
          threw |-> FALSE]

\* redo that reads history[currentPosition] before it increments currentPosition.
redoReadsFirst(cmds, h, p, c) ==
    IF p < Len(h) - 1
    THEN IF (p + 1) \in DOMAIN h
         THEN [history |-> h,
               currentPosition |-> p + 1,
               content |-> execute(cmds[h[p + 1]], c),
               invoked |-> <<<<h[p + 1], "execute">>>>,
               threw |-> FALSE]
         ELSE [history |-> h, currentPosition |-> p + 1, content |-> c, invoked |-> <<>>,
               threw |-> TRUE]
    ELSE [history |-> h, currentPosition |-> p, content |-> c, invoked |-> <<>>,
          threw |-> FALSE]

\* redo that moves currentPosition without executing the command.
redoNoExecute(cmds, h, p, c) ==
    IF p < Len(h) - 1
    THEN [history |-> h, currentPosition |-> p + 1, content |-> c, invoked |-> <<>>,
          threw |-> FALSE]
    ELSE [history |-> h, currentPosition |-> p, content |-> c, invoked |-> <<>>,
          threw |-> FALSE]

\* currentPosition is incremented first; history[currentPosition] is undefined
\* outside the array, and command.execute() then raises.
redo(cmds, h, p, c) ==
    IF p < Len(h) - 1
    THEN IF (p + 2) \in DOMAIN h
         THEN [history |-> h,
               currentPosition |-> p + 1,
               content |-> execute(cmds[h[p + 2]], c),
               invoked |-> <<<<h[p + 2], "execute">>>>,
               threw |-> FALSE]
         ELSE [history |-> h, currentPosition |-> p + 1, content |-> c, invoked |-> <<>>,
               threw |-> TRUE]
    ELSE [history |-> h, currentPosition |-> p, content |-> c, invoked |-> <<>>,
          threw |-> FALSE]

\* ======================================================================
\* Chain of responsibility: Handler, TokenValidationHandler,
\* PermissionHandler and LoggingHandler (src/unnamed/part_004, 1307-1378).
\* chain.next[h] is handler h's `next` field; an AuthRequest is a record of
\* a token and the set of the entries of its permissions array.
\* ======================================================================
Handlers == {"tokenHandler", "permissionHandler", "loggingHandler"}
Tokens == {"", "invalid", "valid_token_123"}
Permissions == {"read", "write"}
AuthRequests == [token : Tokens, permissions : SUBSET Permissions]

\* new PermissionHandler('read')
requiredPermission == "read"

\* setNext(handler): this.next = handler
setNext(next, h, handler) == [next EXCEPT ![h] = handler]

canHandle(h, request) ==
    CASE h = "tokenHandler" -> request.token # ""
      [] h = "permissionHandler" -> request.permissions # {}
      [] h = "loggingHandler" -> TRUE

\* process(request): "returned" when it returns the request, otherwise the
\* message of the Error it throws.
process(h, request) ==
    CASE h = "tokenHandler" ->
           IF request.token = "invalid" THEN "Invalid token" ELSE "returned"
      [] h = "permissionHandler" ->
           IF requiredPermission \notin request.permissions
           THEN "Missing permission: read" ELSE "returned"
      [] h = "loggingHandler" -> "returned"

\* handle(request): the first handler that can handle the request processes
\* it and its result is the chain's result; a handler that cannot hands the
\* request to its next.  A chain that leads back to a handler that cannot
\* handle the request recurses until the call stack is exhausted.
RECURSIVE handle(_, _, _, _)
handle(next, h, request, visited) ==
    IF canHandle(h, request) THEN process(h, request)
    ELSE IF next[h] # "null"
    THEN IF next[h] \in visited \cup {h}
         THEN "RangeError: Maximum call stack size exceeded"
         ELSE handle(next, next[h], request, visited \cup {h})
    ELSE "No handler can process this request"

ChainInit ==
    [next |-> [h \in Handlers |-> "null"], op |-> "new", entry |-> "null",
     request |-> [token |-> "", permissions |-> {}], outcome |-> "none"]

\* ======================================================================
\* BankAccount and CheckingAccount
\* (src/examples/02-intermediate/11-access-modifiers.ts, 235-356).
\* One account object; a PIN is a string, kept as its sequence of
\* characters.  `private` is erased by the compiler: validatePin is an
\* ordinary prototype method, so on a CheckingAccount every call of
\* this.validatePin, also the one in the inherited getBalance, runs
\* CheckingAccount.validatePin.
\* ======================================================================
MaxAmount == 2        \* largest amount handed to deposit, withdraw and the constructor
MaxBalance == 3       \* largest balance a deposit may produce
MaxOverdraft == 1     \* largest overdraftLimit handed to the constructor

Pins == {<<"1", "2", "3", "4">>, <<"0", "0", "0", "0">>, <<"1", "2">>}
Amounts == (-1)..MaxAmount
OverdraftLimits == 0..MaxOverdraft

\* constructor(accountHolder, initialDeposit, pin, ...): balance = 0 unless initialDeposit > 0
newAccount(kind, initialDeposit, pin, overdraftLimit) ==
    [kind |-> kind,
     balance |-> IF initialDeposit > 0 THEN initialDeposit ELSE 0,
     pin |-> pin,
     overdraftLimit |-> overdraftLimit]

\* this.validatePin(inputPin)
validatePin(a, inputPin) ==
    IF a.kind = "CheckingAccount" THEN Len(inputPin) >= 4 ELSE a.pin = inputPin

\* A call's result: what it returns and the balance it leaves.
\* returned is "true", "false", "null" or "number" (then value is the number).
Result(ret, value, balance) ==
    [returned |-> ret, value |-> value, balance |-> balance]

deposit(a, amount) ==
    IF amount <= 0 THEN Result("false", 0, a.balance)
    ELSE Result("true", 0, a.balance + amount)

getBalance(a, pin) ==
    IF ~validatePin(a, pin) THEN Result("null", 0, a.balance)
    ELSE Result("number", a.balance, a.balance)

\* CheckingAccount.getAvailableBalance(pin)
getAvailableBalance(a, pin) ==
    LET currentBalance == getBalance(a, pin)
    IN IF currentBalance.returned = "null" THEN Result("null", 0, a.balance)
       ELSE Result("number", currentBalance.value + a.overdraftLimit, a.balance)

\* withdraw(amount, pin): BankAccount.withdraw, overridden by CheckingAccount.withdraw
withdraw(a, amount, pin) ==
    IF ~validatePin(a, pin) THEN Result("false", 0, a.balance)
    ELSE IF amount <= 0 THEN Result("false", 0, a.balance)
    ELSE IF a.kind = "CheckingAccount"
    THEN LET availableAmount == getAvailableBalance(a, pin)
         IN IF availableAmount.returned = "null" \/ amount > availableAmount.value
            THEN Result("false", 0, a.balance)
            ELSE Result("true", 0, a.balance - amount)
    ELSE IF amount > a.balance THEN Result("false", 0, a.balance)
    ELSE Result("true", 0, a.balance - amount)

\* No account constructed yet.
AccountInit ==
    [obj |-> newAccount("none", 0, <<>>, 0), op |-> "new", amount |-> 0, inputPin |-> <<>>,
     returned |-> "none", value |-> 0, balanceBefore |-> 0]

\* ======================================================================
\* @ReadOnly (src/examples/03-advanced/19-decorators.ts, 136-158), as
\* applied to User.id (226-227).  The decorator runs once, on the prototype:
\* it declares one `value` and defines the accessor pair that every instance
\* reaches through the prototype.  undefined is <<>>, a number n is <<n>>.
\* ======================================================================
Instances == {"user1", "user2"}
Ids == {1, 2, 999}
undefined == <<>>

\* set: function(newValue) { if (value === undefined) value = newValue; else warn }
ReadOnlySet(value, newValue) == IF value = undefined THEN newValue ELSE value

\* get: function() { return value; }
ReadOnlyGet(value) == value

\* After ReadOnly(User.prototype, "id"): `let value` holds undefined.
\* assigned[i] is the first value assigned through instance i, if any.
ReadOnlyInit ==
    [value |-> undefined, op |-> "new", instance |-> "none", newValue |-> undefined,
     read |-> undefined, assigned |-> [i \in Instances |-> undefined]]

\* ======================================================================
\* namespace EventEmitter, class EventEmitter
\* (src/examples/03-advanced/18-namespaces.ts, 321-369), for one event.
\* An entry of the listeners array is a function object: a listener handed
\* to on() is [fn |-> its name, wrapper |-> 0]; once() makes a new closure
\* onceListener each time, [fn |-> the wrapped listener, wrapper |-> n] with
\* n > 0 naming the closure.  The listeners themselves do not call the
\* emitter; only onceListener does, by its off().
\* ======================================================================
MaxListeners == 3     \* longest listeners array

Functions == {"f", "g"}

\* eventListeners.indexOf(listener), 1-based; 0 when absent
IndexOf(list, entry) ==
    IF \E i \in 1..Len(list) : list[i] = entry
    THEN CHOOSE i \in 1..Len(list) :
           /\ list[i] = entry
           /\ \A j \in 1..(i - 1) : list[j] # entry
    ELSE 0

\* eventListeners.splice(index, 1)
Splice1(list, index) == SubSeq(list, 1, index - 1) \o SubSeq(list, index + 1, Len(list))

\* on(event, listener): push
on(list, entry) == Append(list, entry)

\* off(event, listener): remove the first occurrence, if any
off(list, entry) ==
    IF IndexOf(list, entry) > 0 THEN Splice1(list, IndexOf(list, entry)) ELSE list

\* once(event, listener): on(event, onceListener), onceListener a new closure
once(list, fn) ==
    LET n == CHOOSE k \in 1..(Len(list) + 1) :
                 /\ \A i \in 1..Len(list) : list[i].wrapper # k
                 /\ \A j \in 1..(k - 1) : \E i \in 1..Len(list) : list[i].wrapper = j
    IN on(list, [fn |-> fn, wrapper |-> n])

\* Array.prototype.forEach over the live array: the length is read once, the
\* index k (0-based) goes up by one after every callback, and an index the
\* array no longer has is skipped.  The callback calls the listener;
\* onceListener then calls this.off(event, onceListener).
RECURSIVE forEach(_, _, _, _)
forEach(list, k, len, calls) ==
    IF k >= len THEN [listeners |-> list, calls |-> calls]
    ELSE IF k >= Len(list) THEN forEach(list, k + 1, len, calls)
    ELSE LET listener == list[k + 1]
         IN forEach(IF listener.wrapper > 0 THEN off(list, listener) ELSE list,
                    k + 1, len, Append(calls, listener))

\* emit(event, ...args)
emit(list) == forEach(list, 0, Len(list), <<>>)

\* new EventEmitter(): no listeners; calls are the listeners the last emit
\* invoked, in order, atStart the listeners array that emit found.
EmitterInit ==
    [listeners |-> <<>>, op |-> "new", calls |-> <<>>, atStart |-> <<>>]

\* ======================================================================
\* Observer pattern: class EventEmitter implements Subject
\* (src/unnamed/part_004, 966-1023).  The observers of the repository,
\* AnalyticsService and NotificationService, only write to the console in
\* update(); they do not call the subject.
\* ======================================================================
Observers == {"analyticsService", "notificationService", "auditService"}
Activities == {"login", "view_profile"}

\* this.observers.includes(observer)
includes(list, observer) == \E i \in 1..Len(list) : list[i] = observer

\* attach that pushes without looking.
attachAlways(list, observer) == Append(list, observer)

attach(list, observer) ==
    IF ~includes(list, observer) THEN Append(list, observer) ELSE list

detach(list, observer) ==
    LET index == IndexOf(list, observer)
    IN IF index > 0 THEN Splice1(list, index) ELSE list

\* notify(data): the observers whose update(data) is called, in order
notify(list, data) == [i \in 1..Len(list) |-> [observer |-> list[i], data |-> data]]

\* new EventEmitter(): observers = []
SubjectInit ==
    [observers |-> <<>>, op |-> "new", arg |-> "none", updates |-> <<>>,
     before |-> <<>>]

\* ======================================================================
\* @Retry(times, delay) (src/examples/03-advanced/19-decorators.ts,
\* 105-132): one call of the decorated async method, step by step.  An
\* attempt of the original method either returns a value or throws an error;
\* which, is the method's business (Math.random() in the repository).
\* ======================================================================
MaxTimes == 4         \* largest `times` handed to @Retry

Delays == {0, 500}
Errors == {"Database connection failed", "Export failed"}
Values == {"saved", "exported"}

\* Before the decorated method is called.
RetryInit ==
    [times |-> 0, delay |-> 0, pc |-> "idle", attempt |-> 0, invocations |-> <<>>,
     lastError |-> "undefined", result |-> "undefined"]

\* The call begins: let lastError; for (let attempt = 1; attempt <= times; ...)
\* With times < 1 the loop body never runs and throw lastError rejects.
retryCalled(times, delay) ==
    [times |-> times, delay |-> delay,
     pc |-> IF 1 <= times THEN "attempt" ELSE "rejected",
     attempt |-> 1, invocations |-> <<>>, lastError |-> "undefined",
     result |-> "undefined"]

\* return await originalMethod.apply(this, args), the method returning value
attemptReturned(r, value) ==
    [r EXCEPT !.invocations = Append(@, [kind |-> "returned", what |-> value]),
              !.pc = "resolved", !.result = value]

\* End of the catch block: attempt++, and throw lastError once attempt > times.
nextAttempt(r) ==
    IF r.attempt + 1 <= r.times
    THEN [r EXCEPT !.attempt = @ + 1, !.pc = "attempt"]
    ELSE [r EXCEPT !.attempt = @ + 1, !.pc = "rejected", !.result = r.lastError]

\* catch that keeps the first error it saw.
attemptThrewKeepsFirst(r, error) ==
    LET caught == [r EXCEPT !.invocations = Append(@, [kind |-> "threw", what |-> error]),
                            !.lastError = IF @ = "undefined" THEN error ELSE @]
    IN IF r.attempt < r.times /\ r.delay > 0
       THEN [caught EXCEPT !.pc = "delay"]
       ELSE nextAttempt(caught)

\* catch (error) { lastError = error; if (attempt < times && delay > 0) await ... }
attemptThrew(r, error) ==
    LET caught == [r EXCEPT !.invocations = Append(@, [kind |-> "threw", what |-> error]),
                            !.lastError = error]
    IN IF r.attempt < r.times /\ r.delay > 0
       THEN [caught EXCEPT !.pc = "delay"]
       ELSE nextAttempt(caught)

\* ======================================================================
\* Singleton: class DatabaseConnection (src/unnamed/part_004, 879-919).
\* The static field `instance` is <<>> while unset and <<object>> once set;
\* an object is [id, connectionString, isConnected], id counting the
\* constructor's runs.  A missing argument is "undefined".
\* ======================================================================
ConnectionStrings ==
    {"undefined", "", "postgresql://localhost:5432/mydb", "mysql://localhost:3306/mydb",
     "sqlite://mydb", "mongodb://localhost:27017/mydb"}
Sqls == {"SELECT * FROM users", "SELECT 1"}

\* !connectionString
falsy(connectionString) == connectionString \in {"undefined", ""}

\* new DatabaseConnection(connectionString): isConnected = false
newDatabaseConnection(id, connectionString) ==
    [id |-> id, connectionString |-> connectionString, isConnected |-> FALSE]

\* getInstance that builds a new connection whenever it is given a string.
getInstanceReplaces(instance, connectionString) ==
    IF instance = <<>> \/ ~falsy(connectionString)
    THEN IF falsy(connectionString)
         THEN [instance |-> instance, threw |-> TRUE, returned |-> <<>>]
         ELSE LET created == newDatabaseConnection(IF instance = <<>> THEN 1 ELSE 2,
                                                   connectionString)
              IN [instance |-> <<created>>, threw |-> FALSE, returned |-> <<created>>]
    ELSE [instance |-> instance, threw |-> FALSE, returned |-> instance]

\* DatabaseConnection.getInstance(connectionString?)
getInstance(instance, connectionString) ==
    IF instance = <<>>
    THEN IF falsy(connectionString)
         THEN [instance |-> instance, threw |-> TRUE, returned |-> <<>>]
         ELSE LET created == newDatabaseConnection(1, connectionString)
              IN [instance |-> <<created>>, threw |-> FALSE, returned |-> <<created>>]
    ELSE [instance |-> instance, threw |-> FALSE, returned |-> instance]

connect(db) == IF ~db.isConnected THEN [db EXCEPT !.isConnected = TRUE] ELSE db

disconnect(db) == IF db.isConnected THEN [db EXCEPT !.isConnected = FALSE] ELSE db

\* query(sql): TRUE when it throws Error("Database not connected")
queryThrows(db, sql) == ~db.isConnected

\* Before any call.  lastSwitch is the most recent of connect / disconnect,
\* first the connection string of the first successful getInstance.
DatabaseInit ==
    [instance |-> <<>>, op |-> "new", arg |-> "undefined", threw |-> FALSE,
     returned |-> <<>>, lastSwitch |-> "none", first |-> "undefined",
     before |-> [instance |-> <<>>, lastSwitch |-> "none"]]

\* ======================================================================
\* Generic repository: class Repository (src/unnamed/part_005, 197-225);
\* InMemoryRepository (src/unnamed/part_001, 221-249) is the same code with
\* string ids.  An item is [id, name]; null is <<>>, an item x is <<x>>.
\* ======================================================================
MaxId == 2            \* largest id of an item

ItemIds == 1..MaxId
Items == [id : ItemIds, name : {"first", "second"}]

\* this.items.findIndex(i => i.id === id), 1-based; 0 for -1
findIndex(items, id) ==
    IF \E i \in 1..Len(items) : items[i].id = id
    THEN CHOOSE i \in 1..Len(items) :
           /\ items[i].id = id
           /\ \A j \in 1..(i - 1) : items[j].id # id
    ELSE 0

\* save that pushes without looking for the id.
saveAlwaysPushes(items, item) == Append(items, item)

save(items, item) ==
    LET index == findIndex(items, item.id)
    IN IF index > 0 THEN [items EXCEPT ![index] = item] ELSE Append(items, item)

\* findById(id): this.items.find(item => item.id === id) || null
findById(items, id) ==
    LET index == findIndex(items, id)
    IN IF index > 0 THEN <<items[index]>> ELSE <<>>

\* findAll(): [...this.items]
findAll(items) == items

\* delete(id): the items it leaves and the boolean it returns
delete(items, id) ==
    LET index == findIndex(items, id)
    IN IF index > 0
       THEN [items |-> Splice1(items, index), returned |-> TRUE]
       ELSE [items |-> items, returned |-> FALSE]

\* new Repository(): items = []
RepositoryInit ==
    [items |-> <<>>, op |-> "new", id |-> 0, item |-> <<>>, found |-> <<>>,
     deleted |-> FALSE, before |-> <<>>]

\* ---- the other programs as their constructors leave them ----
\* The value of a program's variable in a run in which it is not constructed.
absent == "not constructed"

\* Program p is constructed, the others are not.
Constructed(p) ==
    /\ chain = IF p = "chain" THEN ChainInit ELSE absent
    /\ account = IF p = "account" THEN AccountInit ELSE absent
    /\ readOnly = IF p = "readOnly" THEN ReadOnlyInit ELSE absent
    /\ emitter = IF p = "emitter" THEN EmitterInit ELSE absent
    /\ subject = IF p = "subject" THEN SubjectInit ELSE absent
    /\ retry = IF p = "retry" THEN RetryInit ELSE absent
    /\ database = IF p = "database" THEN DatabaseInit ELSE absent
    /\ repository = IF p = "repository" THEN RepositoryInit ELSE absent

\* A call on program p leaves the editor and every other program alone.
Untouched(p) ==
    /\ UNCHANGED editorVars
    /\ IF p = "chain" THEN TRUE ELSE UNCHANGED chain
    /\ IF p = "account" THEN TRUE ELSE UNCHANGED account
    /\ IF p = "readOnly" THEN TRUE ELSE UNCHANGED readOnly
    /\ IF p = "emitter" THEN TRUE ELSE UNCHANGED emitter
    /\ IF p = "subject" THEN TRUE ELSE UNCHANGED subject
    /\ IF p = "retry" THEN TRUE ELSE UNCHANGED retry
    /\ IF p = "database" THEN TRUE ELSE UNCHANGED database
    /\ IF p = "repository" THEN TRUE ELSE UNCHANGED repository

\* new DocumentEditor whose currentPosition starts at 0.
InitPositionZero ==
    /\ content = <<>>
    /\ commands = <<>>
    /\ history = <<>>
    /\ currentPosition = 0
    /\ lastOp = "new"
    /\ lastArg = 0
    /\ invoked = <<>>
    /\ before = [content |-> <<>>, history |-> <<>>, currentPosition |-> 0]
    /\ lastText = <<>>
    /\ returned = <<>>
    /\ threw = FALSE
    /\ constructedAt = <<>>
    /\ Constructed("editor")

\* new Document() and new DocumentEditor(document)
EditorInit ==
    /\ content = <<>>
    /\ commands = <<>>
    /\ history = <<>>
    /\ currentPosition = -1
    /\ lastOp = "new"
    /\ lastArg = 0
    /\ invoked = <<>>
    /\ before = [content |-> <<>>, history |-> <<>>, currentPosition |-> -1]
    /\ lastText = <<>>
    /\ returned = <<>>
    /\ threw = FALSE
    /\ constructedAt = <<>>

Init ==
    /\ EditorInit
    /\ Constructed("editor")

\* The document content and the editor's fields as a call finds them.
Snapshot == [content |-> content, history |-> history, currentPosition |-> currentPosition]

\* The editor's fields and the content become the result r of a handler.
Becomes(r) ==
    /\ history' = r.history
    /\ currentPosition' = r.currentPosition
    /\ content' = r.content
    /\ invoked' = r.invoked
    /\ threw' = r.threw
    /\ commands' = heapAfter(commands, r.invoked, content)
    /\ before' = Snapshot
    /\ lastText' = <<>>
    /\ returned' = <<>>
    /\ UNCHANGED constructedAt
    /\ UNCHANGED others

\* new AddTextCommand(document, text)
NewAddTextCommand ==
    /\ Len(commands) < MaxCmds
    /\ \E text \in Texts :
         commands' = Append(commands, AddTextCommand(content, text))
    /\ constructedAt' = Append(constructedAt, content)
    /\ lastOp' = "construct"
    /\ lastArg' = Len(commands) + 1
    /\ invoked' = <<>>
    /\ before' = Snapshot
    /\ lastText' = <<>>
    /\ returned' = <<>>
    /\ threw' = FALSE
    /\ UNCHANGED <<content, history, currentPosition>>
    /\ UNCHANGED others

\* new RemoveTextCommand(document, length)
NewRemoveTextCommand ==
    /\ Len(commands) < MaxCmds
    /\ \E length \in Counts :
         commands' = Append(commands, RemoveTextCommand(content, length))
    /\ constructedAt' = Append(constructedAt, content)
    /\ lastOp' = "construct"
    /\ lastArg' = Len(commands) + 1
    /\ invoked' = <<>>
    /\ before' = Snapshot
    /\ lastText' = <<>>
    /\ returned' = <<>>
    /\ threw' = FALSE
    /\ UNCHANGED <<content, history, currentPosition>>
    /\ UNCHANGED others

\* editor.executeCommand(command), command being any constructed command
ExecuteCommand ==
    /\ currentPosition + 1 < MaxHist
    /\ \E id \in 1..Len(commands) :
         /\ Len(execute(commands[id], content)) <= MaxLen
         /\ Becomes(executeCommand(commands, history, currentPosition, content, id))
         /\ lastArg' = id
    /\ lastOp' = "executeCommand"

\* editor.undo()
Undo ==
    /\ Becomes(undo(commands, history, currentPosition, content))
    /\ lastOp' = "undo"
    /\ lastArg' = 0

\* editor.redo()
Redo ==
    /\ Len(redo(commands, history, currentPosition, content).content) <= MaxLen
    /\ Becomes(redo(commands, history, currentPosition, content))
    /\ lastOp' = "redo"
    /\ lastArg' = 0

\* document.addText(text), called on the document directly
AddText ==
    /\ \E text \in DocTexts :
         /\ Len(addText(content, text)) <= MaxDocLen
         /\ content' = addText(content, text)
         /\ lastText' = text
    /\ lastOp' = "addText"
    /\ lastArg' = 0
    /\ invoked' = <<>>
    /\ before' = Snapshot
    /\ returned' = <<>>
    /\ threw' = FALSE
    /\ UNCHANGED <<commands, history, currentPosition, constructedAt>>
    /\ UNCHANGED others

\* document.removeText(length), called on the document directly
RemoveText ==
    /\ \E length \in Counts :
         /\ content' = removeText(content, length)
         /\ lastArg' = length
    /\ lastOp' = "removeText"
    /\ invoked' = <<>>
    /\ before' = Snapshot
    /\ lastText' = <<>>
    /\ returned' = <<>>
    /\ threw' = FALSE
    /\ UNCHANGED <<commands, history, currentPosition, constructedAt>>
    /\ UNCHANGED others

\* editor.getContent(), which returns document.getContent()
GetContent ==
    /\ returned' = getContent(content)
    /\ lastOp' = "getContent"
    /\ lastArg' = 0
    /\ invoked' = <<>>
    /\ before' = Snapshot
    /\ lastText' = <<>>
    /\ threw' = FALSE
    /\ UNCHANGED <<content, commands, history, currentPosition, constructedAt>>
    /\ UNCHANGED others

\* The editor driven through executeCommand, undo and redo.
Next ==
    \/ NewAddTextCommand
    \/ NewRemoveTextCommand
    \/ ExecuteCommand
    \/ Undo
    \/ Redo
    \/ GetContent

Spec == Init /\ [][Next]_vars

\* Commands run only through executeCommand.
NextExec ==
    \/ NewAddTextCommand
    \/ NewRemoveTextCommand
    \/ ExecuteCommand

SpecExec == Init /\ [][NextExec]_vars

\* The Document alone, called directly.
NextDocument ==
    \/ AddText
    \/ RemoveText

SpecDocument == Init /\ [][NextDocument]_vars

\* Every command is constructed immediately before it is handed to executeCommand.
NextFresh ==
    \/ NewAddTextCommand
    \/ NewRemoveTextCommand
    \/ (lastOp = "construct" /\ ExecuteCommand /\ lastArg' = Len(commands))
    \/ Undo
    \/ Redo

SpecFresh == Init /\ [][NextFresh]_vars

\* The editor and the document it edits, the document also called directly.
NextAll ==
    \/ (Len(commands) < MaxAllCmds /\ NewAddTextCommand)
    \/ (/\ Len(commands) < MaxAllCmds
        /\ NewRemoveTextCommand
        /\ commands'[Len(commands')].length <= MaxAllCount)
    \/ (currentPosition + 1 < MaxAllHist /\ ExecuteCommand /\ Len(content') <= MaxAllLen)
    \/ Undo
    \/ (Redo /\ Len(content') <= MaxAllLen)
    \/ (AddText /\ Len(content') <= MaxAllLen)
    \/ (RemoveText /\ lastArg' <= MaxAllCount)
    \/ GetContent

SpecAll == Init /\ [][NextAll]_vars

\* ---- properties ----
Range(f) == {f[i] : i \in DOMAIN f}

\* The commands the editor counts as applied: history[0..currentPosition].
Applied == {history[i] : i \in 1..(currentPosition + 1)}

\* The commands' operations applied, in order, to the content c.
RECURSIVE ApplyAll(_, _)
ApplyAll(ids, c) ==
    IF ids = <<>> THEN c
    ELSE ApplyAll(Tail(ids), execute(commands[Head(ids)], c))

\* The reference operations: concatenate text, drop the last min(count, length) characters.
RefOp(cmd, c) ==
    IF cmd.kind = "add" THEN c \o cmd.text
    ELSE SubSeq(c, 1, Len(c) - Min(cmd.length, Len(c)))

RECURSIVE RefFold(_, _)
RefFold(ids, c) ==
    IF ids = <<>> THEN c
    ELSE RefFold(Tail(ids), RefOp(commands[Head(ids)], c))

\* C1: currentPosition is an integer with -1 <= currentPosition <= history.length - 1
\* in every state reachable through executeCommand, undo and redo.
C1_PositionInRange ==
    /\ currentPosition \in Int
    /\ -1 <= currentPosition
    /\ currentPosition <= Len(history) - 1

C1_Witness ==
    /\ lastOp = "undo"
    /\ currentPosition = -1
    /\ Len(history) >= 2

\* C2: the content equals the operations of history[0..currentPosition] applied,
\* in order, to the empty buffer.
C2_ContentIsFoldOfApplied ==
    content = ApplyAll(SubSeq(history, 1, currentPosition + 1), <<>>)

\* C3: with commands run only through executeCommand, the content equals the
\* left-to-right fold of the reference operations over the empty string.
C3_ContentIsReferenceFold ==
    content = RefFold(history, <<>>)

\* C4: for the content S of any reachable state and any constructed command C,
\* executeCommand(C) followed by undo() leaves the content S.
C4_UndoInvertsExecute ==
    \A id \in 1..Len(commands) :
        LET e == executeCommand(commands, history, currentPosition, content, id)
            u == undo(commands, e.history, e.currentPosition, e.content)
        IN u.content = content

\* C5: executeCommand(C); undo(); redo() ends with the content, currentPosition
\* and history that executeCommand(C) alone gives.
C5_RedoReplaysExecute ==
    \A id \in 1..Len(commands) :
        LET e == executeCommand(commands, history, currentPosition, content, id)
            u == undo(commands, e.history, e.currentPosition, e.content)
            r == redo(commands, u.history, u.currentPosition, u.content)
        IN /\ r.content = e.content
           /\ r.currentPosition = e.currentPosition
           /\ r.history = e.history

\* C6: executeCommand(C) called with currentPosition < history.length - 1 leaves
\* history = old history[0..currentPosition] followed by C, a redo() right after
\* it is a no-op, and undo and redo never apply a command that is not in history.
C6_BranchCut ==
    /\ (lastOp = "executeCommand"
        /\ before.currentPosition < Len(before.history) - 1)
       => /\ history = Append(SubSeq(before.history, 1, before.currentPosition + 1), lastArg)
          /\ Len(history) = before.currentPosition + 2
          /\ redo(commands, history, currentPosition, content)
               = [history |-> history, currentPosition |-> currentPosition,
                  content |-> content, invoked |-> <<>>, threw |-> FALSE]
    /\ lastOp \in {"undo", "redo"}
       => /\ Applied \subseteq Range(before.history)
          /\ \A id \in 1..Len(commands) :
                id \notin Range(before.history) => id \notin Range(history)

C6_Witness ==
    /\ lastOp = "executeCommand"
    /\ before.currentPosition < Len(before.history) - 1
    /\ \E id \in Range(before.history) : id \notin Range(history)

\* C7: undo() called with currentPosition = -1 leaves history, currentPosition and
\* the content unchanged and invokes no command's undo.
C7_UndoAtStartIsNoOp ==
    (lastOp = "undo" /\ before.currentPosition = -1)
       => /\ history = before.history
          /\ currentPosition = before.currentPosition
          /\ content = before.content
          /\ invoked = <<>>

C7_Witness ==
    /\ lastOp = "undo"
    /\ before.currentPosition = -1
    /\ Len(before.history) > 0

\* C8: redo() called with currentPosition = history.length - 1 leaves history,
\* currentPosition and the content unchanged and invokes no command's execute.
C8_RedoAtNewestIsNoOp ==
    (lastOp = "redo" /\ before.currentPosition = Len(before.history) - 1)
       => /\ history = before.history
          /\ currentPosition = before.currentPosition
          /\ content = before.content
          /\ invoked = <<>>

C8_Witness ==
    /\ lastOp = "redo"
    /\ before.currentPosition = Len(before.history) - 1
    /\ Len(before.history) > 0

\* C9: removeText(count) with 0 <= count <= length(c) leaves the first
\* length(c) - count characters of c; removeText(0) changes nothing.
C9_RemoveTextDropsLast ==
    (lastOp = "removeText" /\ 0 <= lastArg /\ lastArg <= Len(before.content))
       => content = SubSeq(before.content, 1, Len(before.content) - lastArg)

\* C10: a removeText(count) with count > length(c) leaves the empty string:
\* a RemoveTextCommand executed with a count above the length of the content,
\* or equal to it (RemoveText(6) on "abcdef", RemoveText(3) on ""), leaves "".
C10_RemoveMoreThanHeld ==
    (/\ lastOp \in {"executeCommand", "redo"}
     /\ invoked # <<>>
     /\ commands[invoked[1][1]].kind = "remove"
     /\ commands[invoked[1][1]].length >= Len(before.content))
       => content = <<>>

C10_Witness ==
    /\ lastOp = "executeCommand"
    /\ commands[lastArg].kind = "remove"
    /\ commands[lastArg].length > Len(before.content)
    /\ Len(before.content) > 0
    /\ content = <<>>

\* The operations of the first m commands of h applied, in order, to the empty buffer.
FoldFirst(h, m) == ApplyAll(SubSeq(h, 1, m), <<>>)

\* C11: with every command constructed immediately before its executeCommand,
\* n executes leave the fold of all n operations, each undo() that finds
\* currentPosition = p >= 0 leaves the fold of the first p operations, and each
\* redo() that finds currentPosition = p below the newest leaves the fold of the
\* first p + 2 operations (n - k after k undos, n - k + j after j redos).
C11_UndoRedoFold ==
    /\ lastOp = "executeCommand" => content = FoldFirst(history, Len(history))
    /\ (lastOp = "undo" /\ before.currentPosition >= 0)
          => content = FoldFirst(history, before.currentPosition)
    /\ (lastOp = "redo" /\ before.currentPosition < Len(before.history) - 1)
          => content = FoldFirst(history, before.currentPosition + 2)

\* Two executes, two undos, one redo: the content is the first operation's alone.
C11_Witness ==
    /\ lastOp = "redo"
    /\ Len(history) = 2
    /\ before.currentPosition = -1
    /\ currentPosition = 0
    /\ content # <<>>
    /\ content = FoldFirst(history, 1)

\* C12: no addText, removeText, executeCommand, undo, redo or getContent call
\* raises an error, in any reachable state.
C12_NoCallRaises == threw = FALSE

\* An over-long removeText on a document whose editor has undone everything.
C12_Witness ==
    /\ lastOp = "removeText"
    /\ lastArg > Len(before.content)
    /\ Len(history) > 0
    /\ currentPosition = -1
    /\ threw = FALSE

\* C13: addText(text) leaves the old content followed by text, the empty text
\* included, and does not raise.
C13_AddTextAppends ==
    lastOp = "addText"
       => /\ content = before.content \o lastText
          /\ Len(content) = Len(before.content) + Len(lastText)
          /\ threw = FALSE

C13_Witness ==
    /\ lastOp = "addText"
    /\ lastText = <<>>
    /\ before.content # <<>>
    /\ content = before.content

\* C14: getContent() returns the current content and changes neither the
\* content, nor history, nor currentPosition, nor any command.
C14_GetContentPure ==
    [][lastOp' = "getContent"
         => /\ returned' = content
            /\ UNCHANGED <<content, history, currentPosition, commands>>]_vars

C14_Witness ==
    /\ lastOp = "getContent"
    /\ returned = content
    /\ content # <<>>
    /\ Len(history) > 0

\* C15: executeCommand(cmd) from history h and position p invokes cmd.execute()
\* once and ends with history = h[0..p] followed by cmd and position p + 1, so
\* that currentPosition = history.length - 1 and the last element is cmd.
C15_ExecuteCommandEffect ==
    lastOp = "executeCommand"
       => /\ invoked = <<<<lastArg, "execute">>>>
          /\ content = execute(commands[lastArg], before.content)
          /\ history = SubSeq(before.history, 1, before.currentPosition + 1) \o <<lastArg>>
          /\ currentPosition = before.currentPosition + 1
          /\ currentPosition = Len(history) - 1
          /\ history[Len(history)] = lastArg

C15_Witness ==
    /\ lastOp = "executeCommand"
    /\ before.currentPosition = 0
    /\ Len(before.history) = 2
    /\ history = <<before.history[1], lastArg>>

\* C16: undo() that finds currentPosition = p >= 0 invokes undo() of history[p]
\* and of no other command, and leaves currentPosition = p - 1.
C16_UndoEffect ==
    (lastOp = "undo" /\ before.currentPosition >= 0)
       => /\ invoked = <<<<before.history[before.currentPosition + 1], "undo">>>>
          /\ content = commands[before.history[before.currentPosition + 1]].previousContent
          /\ currentPosition = before.currentPosition - 1

C16_Witness ==
    /\ lastOp = "undo"
    /\ before.currentPosition = 1
    /\ before.history[1] # before.history[2]
    /\ invoked = <<<<before.history[2], "undo">>>>

\* C17: redo() that finds currentPosition = p < history.length - 1 leaves
\* currentPosition = p + 1 and invokes execute() of history[p + 1] alone; the new
\* content is that command's operation applied to the content redo() found.
C17_RedoEffect ==
    (lastOp = "redo" /\ before.currentPosition < Len(before.history) - 1)
       => /\ currentPosition = before.currentPosition + 1
          /\ invoked = <<<<before.history[before.currentPosition + 2], "execute">>>>
          /\ content = execute(commands[before.history[before.currentPosition + 2]],
                               before.content)

\* The same add command twice in history, the second re-done on the content its
\* undo restored: the content is one text long, not the two texts its first
\* execution left.
C17_Witness ==
    /\ lastOp = "redo"
    /\ Len(history) = 2
    /\ history[1] = history[2]
    /\ currentPosition = 1
    /\ commands[history[2]].kind = "add"
    /\ commands[history[2]].previousContent = <<>>
    /\ content = commands[history[2]].text

C19_SnapshotImmutable ==
    [][\A i \in DOMAIN commands :
          /\ i \in DOMAIN commands'
          /\ commands'[i].previousContent = commands[i].previousContent]_vars

\* A command handed to executeCommand again while the document holds a content
\* other than its snapshot.
C19_Witness ==
    /\ lastOp = "executeCommand"
    /\ before.history = <<lastArg>>
    /\ commands[lastArg].previousContent # before.content
    /\ commands[lastArg].previousContent = constructedAt[lastArg]

\* C20: a new Document has content "" and a new DocumentEditor has
\* history = [] and currentPosition = -1.
C20_InitialState ==
    lastOp = "new"
       => /\ content = <<>>
          /\ history = <<>>
          /\ currentPosition = -1

C20_Witness ==
    /\ lastOp = "new"
    /\ commands = <<>>
    /\ threw = FALSE

\* C24: undo() and redo() never change the history sequence, in any
\* reachable state: every call leaves the history it found (before.history)
\* unless it is an executeCommand.
C24_OnlyExecuteCommandChangesHistory ==
    /\ lastOp \in {"undo", "redo"} => history = before.history
    /\ history # before.history => lastOp = "executeCommand"

\* An undo that has undone the second of two commands, both still in history.
C24_Witness ==
    /\ lastOp = "undo"
    /\ invoked # <<>>
    /\ before.currentPosition = 1
    /\ Len(history) = 2
    /\ history = before.history

\* ---- the handler chain: calls ----
\* h.setNext(handler)
SetNext ==
    /\ \E h \in Handlers, handler \in Handlers :
         chain' = [chain EXCEPT !.next = setNext(chain.next, h, handler),
                                !.op = "setNext", !.entry = h, !.outcome = "none"]
    /\ Untouched("chain")

\* h.handle(request)
Handle ==
    /\ \E h \in Handlers, request \in AuthRequests :
         chain' = [chain EXCEPT !.op = "handle", !.entry = h, !.request = request,
                                !.outcome = handle(chain.next, h, request, {})]
    /\ Untouched("chain")

NextChain ==
    \/ SetNext
    \/ Handle

InitChain == EditorInit /\ Constructed("chain")

SpecChain == InitChain /\ [][NextChain]_vars

\* tokenHandler.setNext(permissionHandler).setNext(loggingHandler)
DemoChain ==
    chain.next = [h \in Handlers |->
                    CASE h = "tokenHandler" -> "permissionHandler"
                      [] h = "permissionHandler" -> "loggingHandler"
                      [] h = "loggingHandler" -> "null"]

\* C21: in the chain TokenValidationHandler -> PermissionHandler('read') ->
\* LoggingHandler a request with a valid non-empty token whose permissions
\* lack 'read' fails with an error, and a request is accepted only if it
\* passes both the token check and the permission check.
C21_AcceptedOnlyIfTokenAndPermission ==
    (DemoChain /\ chain.op = "handle" /\ chain.entry = "tokenHandler")
       => /\ (/\ chain.request.token \notin {"", "invalid"}
              /\ "read" \notin chain.request.permissions)
                => chain.outcome # "returned"
          /\ chain.outcome = "returned"
                => /\ chain.request.token \notin {"", "invalid"}
                   /\ "read" \in chain.request.permissions

\* ---- the bank accounts: calls ----
\* The account after a call `op` with the given arguments and result r.
AccountAfter(op, amount, inputPin, r) ==
    [obj |-> [account.obj EXCEPT !.balance = r.balance], op |-> op, amount |-> amount,
     inputPin |-> inputPin, returned |-> r.returned, value |-> r.value,
     balanceBefore |-> account.obj.balance]

\* new BankAccount(holder, initialDeposit, pin)
NewBankAccount ==
    /\ \E initialDeposit \in Amounts, pin \in Pins :
         account' = [AccountInit EXCEPT
                        !.obj = newAccount("BankAccount", initialDeposit, pin, 0),
                        !.op = "construct", !.amount = initialDeposit]
    /\ Untouched("account")

\* new CheckingAccount(holder, initialDeposit, pin, overdraftLimit)
NewCheckingAccount ==
    /\ \E initialDeposit \in Amounts, pin \in Pins, overdraftLimit \in OverdraftLimits :
         account' = [AccountInit EXCEPT
                        !.obj = newAccount("CheckingAccount", initialDeposit, pin,
                                           overdraftLimit),
                        !.op = "construct", !.amount = initialDeposit]
    /\ Untouched("account")

\* account.deposit(amount)
Deposit ==
    /\ account.obj.kind # "none"
    /\ \E amount \in Amounts :
         /\ deposit(account.obj, amount).balance <= MaxBalance
         /\ account' = AccountAfter("deposit", amount, <<>>, deposit(account.obj, amount))
    /\ Untouched("account")

\* account.withdraw(amount, pin)
Withdraw ==
    /\ account.obj.kind # "none"
    /\ \E amount \in Amounts, pin \in Pins :
         account' = AccountAfter("withdraw", amount, pin, withdraw(account.obj, amount, pin))
    /\ Untouched("account")

\* account.getBalance(pin)
GetBalance ==
    /\ account.obj.kind # "none"
    /\ \E pin \in Pins :
         account' = AccountAfter("getBalance", 0, pin, getBalance(account.obj, pin))
    /\ Untouched("account")

\* checking.getAvailableBalance(pin)
GetAvailableBalance ==
    /\ account.obj.kind = "CheckingAccount"
    /\ \E pin \in Pins :
         account' = AccountAfter("getAvailableBalance", 0, pin,
                                 getAvailableBalance(account.obj, pin))
    /\ Untouched("account")

NextAccount ==
    \/ NewBankAccount
    \/ NewCheckingAccount
    \/ Deposit
    \/ Withdraw
    \/ GetBalance
    \/ GetAvailableBalance

InitAccount == EditorInit /\ Constructed("account")

SpecAccount == InitAccount /\ [][NextAccount]_vars

\* C22: CheckingAccount validates the PIN as BankAccount does: withdraw,
\* getBalance and getAvailableBalance called on a CheckingAccount with a PIN
\* other than the account's are refused (false, null) and leave the balance.
C22_CheckingRefusesWrongPin ==
    (/\ account.obj.kind = "CheckingAccount"
     /\ account.op \in {"withdraw", "getBalance", "getAvailableBalance"}
     /\ account.inputPin # account.obj.pin)
       => /\ account.returned = (IF account.op = "withdraw" THEN "false" ELSE "null")
          /\ account.obj.balance = account.balanceBefore

\* A deposit or withdraw call the account has to refuse: a non-positive
\* amount, a PIN other than the account's, more than the balance of a
\* BankAccount, more than balance + overdraftLimit of a CheckingAccount.
MustRefuse ==
    /\ account.op \in {"deposit", "withdraw"}
    /\ \/ account.amount <= 0
       \/ account.op = "withdraw" /\ account.inputPin # account.obj.pin
       \/ /\ account.op = "withdraw"
          /\ account.obj.kind = "BankAccount"
          /\ account.amount > account.balanceBefore
       \/ /\ account.op = "withdraw"
          /\ account.obj.kind = "CheckingAccount"
          /\ account.amount > account.balanceBefore + account.obj.overdraftLimit

\* C30: after any deposit and withdraw calls a BankAccount's balance is never
\* negative and a CheckingAccount's never below -overdraftLimit, and every
\* call that has to be refused (non-positive amount, wrong PIN, insufficient
\* funds, exceeded overdraft) returns false and leaves the balance unchanged.
C30_BalanceBoundsAndRefusals ==
    /\ account.obj.kind = "BankAccount" => account.obj.balance >= 0
    /\ account.obj.kind = "CheckingAccount"
          => account.obj.balance >= -account.obj.overdraftLimit
    /\ MustRefuse => /\ account.returned = "false"
                     /\ account.obj.balance = account.balanceBefore

\* ---- the @ReadOnly property: calls ----
\* instance.id = newValue
SetId ==
    /\ \E i \in Instances, n \in Ids :
         readOnly' = [readOnly EXCEPT
                         !.value = ReadOnlySet(readOnly.value, <<n>>),
                         !.op = "set", !.instance = i, !.newValue = <<n>>,
                         !.read = undefined,
                         !.assigned[i] = IF @ = undefined THEN <<n>> ELSE @]
    /\ Untouched("readOnly")

\* instance.id
GetId ==
    /\ \E i \in Instances :
         readOnly' = [readOnly EXCEPT
                         !.op = "get", !.instance = i, !.newValue = undefined,
                         !.read = ReadOnlyGet(readOnly.value)]
    /\ Untouched("readOnly")

NextReadOnly ==
    \/ SetId
    \/ GetId

InitReadOnly == EditorInit /\ Constructed("readOnly")

SpecReadOnly == InitReadOnly /\ [][NextReadOnly]_vars

\* C23: a @ReadOnly property keeps, per instance, the first value assigned
\* on that instance: reading it on an instance gives the first value that
\* was assigned on that same instance (undefined when none was), whatever
\* was assigned on other instances.
C23_FirstValuePerInstance ==
    readOnly.op = "get" => readOnly.read = readOnly.assigned[readOnly.instance]

\* ---- the namespaced EventEmitter: calls ----
\* emitter.on(event, listener)
On ==
    /\ Len(emitter.listeners) < MaxListeners
    /\ \E fn \in Functions :
         emitter' = [listeners |-> on(emitter.listeners, [fn |-> fn, wrapper |-> 0]),
                     op |-> "on", calls |-> <<>>, atStart |-> emitter.listeners]
    /\ Untouched("emitter")

\* emitter.once(event, listener)
Once ==
    /\ Len(emitter.listeners) < MaxListeners
    /\ \E fn \in Functions :
         emitter' = [listeners |-> once(emitter.listeners, fn),
                     op |-> "once", calls |-> <<>>, atStart |-> emitter.listeners]
    /\ Untouched("emitter")

\* emitter.off(event, listener), listener a function handed to on() or not
Off ==
    /\ \E fn \in Functions :
         emitter' = [listeners |-> off(emitter.listeners, [fn |-> fn, wrapper |-> 0]),
                     op |-> "off", calls |-> <<>>, atStart |-> emitter.listeners]
    /\ Untouched("emitter")

\* emitter.emit(event)
Emit ==
    /\ emitter' = [listeners |-> emit(emitter.listeners).listeners,
                   op |-> "emit", calls |-> emit(emitter.listeners).calls,
                   atStart |-> emitter.listeners]
    /\ Untouched("emitter")

NextEmitter ==
    \/ On
    \/ Once
    \/ Off
    \/ Emit

InitEmitter == EditorInit /\ Constructed("emitter")

SpecEmitter == InitEmitter /\ [][NextEmitter]_vars

\* C25: each emit invokes every listener registered at the start of the emit
\* exactly once, in registration order, also when a once-listener registered
\* before it removes itself during that emit; a once-listener is invoked on
\* the first emit that follows its registration and is gone after it.
C25_EmitInvokesAllInOrder ==
    emitter.op = "emit"
       => /\ emitter.calls = emitter.atStart
          /\ \A i \in 1..Len(emitter.listeners) : emitter.listeners[i].wrapper = 0

\* ---- the observer Subject: calls ----
\* subject.attach(observer)
Attach ==
    /\ \E observer \in Observers :
         subject' = [observers |-> attach(subject.observers, observer), op |-> "attach",
                     arg |-> observer, updates |-> <<>>, before |-> subject.observers]
    /\ Untouched("subject")

\* subject.detach(observer)
Detach ==
    /\ \E observer \in Observers :
         subject' = [observers |-> detach(subject.observers, observer), op |-> "detach",
                     arg |-> observer, updates |-> <<>>, before |-> subject.observers]
    /\ Untouched("subject")

\* subject.notify(data)
Notify ==
    /\ \E data \in Activities :
         subject' = [observers |-> subject.observers, op |-> "notify", arg |-> data,
                     updates |-> notify(subject.observers, data),
                     before |-> subject.observers]
    /\ Untouched("subject")

NextSubject ==
    \/ Attach
    \/ Detach
    \/ Notify

InitSubject == EditorInit /\ Constructed("subject")

SpecSubject == InitSubject /\ [][NextSubject]_vars

\* C26: the observers list holds no observer twice; detach of an observer
\* that is not attached changes nothing; notify calls update exactly once on
\* each attached observer, in attachment order, and on no detached one.
C26_ObserversSetAndNotify ==
    /\ \A i, j \in 1..Len(subject.observers) :
          subject.observers[i] = subject.observers[j] => i = j
    /\ (subject.op = "detach" /\ ~includes(subject.before, subject.arg))
          => subject.observers = subject.before
    /\ subject.op = "notify"
          => /\ Len(subject.updates) = Len(subject.before)
             /\ \A i \in 1..Len(subject.before) :
                   subject.updates[i] = [observer |-> subject.before[i],
                                         data |-> subject.arg]
             /\ subject.observers = subject.before

\* A notify that finds two observers attached and the third not.
C26_Witness ==
    /\ subject.op = "notify"
    /\ Len(subject.updates) = 2
    /\ ~includes(subject.observers, "analyticsService")

\* ---- the @Retry method: steps of one call ----
\* The decorated method is called (the previous call, if any, has settled).
RetryCall ==
    /\ retry.pc \in {"idle", "resolved", "rejected"}
    /\ \E times \in 0..MaxTimes, delay \in Delays :
         retry' = retryCalled(times, delay)
    /\ Untouched("retry")

\* The original method returns.
AttemptReturns ==
    /\ retry.pc = "attempt"
    /\ \E value \in Values : retry' = attemptReturned(retry, value)
    /\ Untouched("retry")

\* The original method throws.
AttemptThrows ==
    /\ retry.pc = "attempt"
    /\ \E error \in Errors : retry' = attemptThrew(retry, error)
    /\ Untouched("retry")

\* The setTimeout of the delay fires.
DelayElapsed ==
    /\ retry.pc = "delay"
    /\ retry' = nextAttempt(retry)
    /\ Untouched("retry")

NextRetry ==
    \/ RetryCall
    \/ AttemptReturns
    \/ AttemptThrows
    \/ DelayElapsed

InitRetry == EditorInit /\ Constructed("retry")

SpecRetry == InitRetry /\ [][NextRetry]_vars

\* C27: with times >= 1 the original method is invoked at most `times` times,
\* one attempt after the other; the call resolves with the result of the
\* first attempt that succeeds, with no attempt after it; if all `times`
\* attempts fail it rejects with the error of the last attempt.
C27_RetryAtMostTimes ==
    retry.times >= 1
       => /\ Len(retry.invocations) <= retry.times
          /\ \A i \in 1..(Len(retry.invocations) - 1) :
                retry.invocations[i].kind = "threw"
          /\ retry.pc = "resolved"
                => /\ retry.invocations[Len(retry.invocations)].kind = "returned"
                   /\ retry.result = retry.invocations[Len(retry.invocations)].what
          /\ retry.pc = "rejected"
                => /\ Len(retry.invocations) = retry.times
                   /\ retry.invocations[retry.times].kind = "threw"
                   /\ retry.result = retry.invocations[retry.times].what
          /\ retry.pc \in {"attempt", "delay"}
                => /\ Len(retry.invocations) < retry.times
                   /\ \A i \in 1..Len(retry.invocations) :
                         retry.invocations[i].kind = "threw"

\* Two attempts that failed with different errors, the call rejected.
C27_Witness ==
    /\ retry.pc = "rejected"
    /\ retry.times = 2
    /\ retry.invocations[1].what # retry.invocations[2].what
    /\ retry.result = retry.invocations[2].what

\* ---- the DatabaseConnection singleton: calls ----
DatabaseBefore == [instance |-> database.instance, lastSwitch |-> database.lastSwitch]

\* DatabaseConnection.getInstance(connectionString)
GetInstance ==
    /\ \E connectionString \in ConnectionStrings :
         LET r == getInstance(database.instance, connectionString)
         IN database' = [database EXCEPT
                            !.instance = r.instance, !.op = "getInstance",
                            !.arg = connectionString, !.threw = r.threw,
                            !.returned = r.returned,
                            !.first = IF database.instance = <<>> /\ ~r.threw
                                      THEN connectionString ELSE @,
                            !.before = DatabaseBefore]
    /\ Untouched("database")

\* db.connect(), db an object getInstance returned
Connect ==
    /\ database.instance # <<>>
    /\ database' = [database EXCEPT
                       !.instance = <<connect(database.instance[1])>>, !.op = "connect",
                       !.arg = "undefined", !.threw = FALSE, !.returned = <<>>,
                       !.lastSwitch = "connect", !.before = DatabaseBefore]
    /\ Untouched("database")

\* db.disconnect()
Disconnect ==
    /\ database.instance # <<>>
    /\ database' = [database EXCEPT
                       !.instance = <<disconnect(database.instance[1])>>,
                       !.op = "disconnect", !.arg = "undefined", !.threw = FALSE,
                       !.returned = <<>>, !.lastSwitch = "disconnect",
                       !.before = DatabaseBefore]
    /\ Untouched("database")

\* db.query(sql)
Query ==
    /\ database.instance # <<>>
    /\ \E sql \in Sqls :
         database' = [database EXCEPT
                         !.op = "query", !.arg = sql,
                         !.threw = queryThrows(database.instance[1], sql),
                         !.returned = <<>>, !.before = DatabaseBefore]
    /\ Untouched("database")

NextDatabase ==
    \/ GetInstance
    \/ Connect
    \/ Disconnect
    \/ Query

InitDatabase == EditorInit /\ Constructed("database")

SpecDatabase == InitDatabase /\ [][NextDatabase]_vars

\* C28: every successful getInstance returns the same instance, made with the
\* first connection string (a later one is ignored); getInstance without a
\* connection string before any instance exists throws and creates none;
\* query throws exactly when the most recent of connect / disconnect was not
\* connect; connect and disconnect are idempotent.
C28_Singleton ==
    /\ (database.op = "getInstance" /\ ~database.threw)
          => /\ database.returned = database.instance
             /\ database.returned[1].id = 1
             /\ database.returned[1].connectionString = database.first
             /\ database.before.instance # <<>>
                   => database.instance = database.before.instance
    /\ (database.op = "getInstance" /\ database.before.instance = <<>>
        /\ falsy(database.arg))
          => database.threw /\ database.instance = <<>>
    /\ (database.op = "getInstance" /\ database.threw)
          => database.before.instance = <<>> /\ falsy(database.arg)
    /\ database.op = "query"
          => (database.threw <=> database.lastSwitch # "connect")
    /\ database.op = "connect"
          => /\ database.instance[1].isConnected
             /\ database.before.lastSwitch = "connect"
                   => database.instance = database.before.instance
    /\ database.op = "disconnect"
          => /\ ~database.instance[1].isConnected
             /\ database.before.lastSwitch # "connect"
                   => database.instance = database.before.instance

\* A getInstance with another connection string after the instance was made
\* and connected: the connected first instance comes back.
C28_Witness ==
    /\ database.op = "getInstance"
    /\ ~falsy(database.arg)
    /\ database.arg # database.first
    /\ database.returned # <<>>
    /\ database.returned[1].isConnected
    /\ database.returned[1].connectionString = database.first

\* ---- the Repository: calls ----
\* repository.save(item)
Save ==
    /\ \E item \in Items :
         repository' = [items |-> save(repository.items, item), op |-> "save",
                        id |-> item.id, item |-> <<item>>, found |-> <<>>,
                        deleted |-> FALSE, before |-> repository.items]
    /\ Untouched("repository")

\* repository.findById(id)
FindById ==
    /\ \E id \in ItemIds :
         repository' = [items |-> repository.items, op |-> "findById", id |-> id,
                        item |-> <<>>, found |-> findById(repository.items, id),
                        deleted |-> FALSE, before |-> repository.items]
    /\ Untouched("repository")

\* repository.findAll()
FindAll ==
    /\ repository' = [items |-> repository.items, op |-> "findAll", id |-> 0,
                      item |-> <<>>, found |-> findAll(repository.items),
                      deleted |-> FALSE, before |-> repository.items]
    /\ Untouched("repository")

\* repository.delete(id)
Delete ==
    /\ \E id \in ItemIds :
         repository' = [items |-> delete(repository.items, id).items, op |-> "delete",
                        id |-> id, item |-> <<>>, found |-> <<>>,
                        deleted |-> delete(repository.items, id).returned,
                        before |-> repository.items]
    /\ Untouched("repository")

NextRepository ==
    \/ Save
    \/ FindById
    \/ FindAll
    \/ Delete

InitRepository == EditorInit /\ Constructed("repository")

SpecRepository == InitRepository /\ [][NextRepository]_vars

\* The ids of a list of items, in order.
IdsOf(items) == [i \in 1..Len(items) |-> items[i].id]

\* C29: no two stored items share an id; save of an item whose id is stored
\* replaces that item in place and keeps the number and order of the items;
\* delete(id) returns true and removes exactly that item when the id is
\* stored, and returns false and changes nothing otherwise; findById(id)
\* returns the stored item with that id, or null when there is none.
C29_RepositoryKeyedById ==
    LET stored(id) == \E i \in 1..Len(repository.before) : repository.before[i].id = id
    IN
    /\ \A i, j \in 1..Len(repository.items) :
          repository.items[i].id = repository.items[j].id => i = j
    /\ (repository.op = "save" /\ stored(repository.id))
          => /\ IdsOf(repository.items) = IdsOf(repository.before)
             /\ \A i \in 1..Len(repository.items) :
                   repository.items[i] =
                      IF repository.before[i].id = repository.id
                      THEN repository.item[1] ELSE repository.before[i]
    /\ (repository.op = "delete" /\ stored(repository.id))
          => /\ repository.deleted
             /\ Len(repository.items) = Len(repository.before) - 1
             /\ \E k \in 1..Len(repository.before) :
                   /\ repository.before[k].id = repository.id
                   /\ repository.items = SubSeq(repository.before, 1, k - 1)
                         \o SubSeq(repository.before, k + 1, Len(repository.before))
    /\ (repository.op = "delete" /\ ~stored(repository.id))
          => ~repository.deleted /\ repository.items = repository.before
    /\ repository.op = "findById"
          => /\ repository.items = repository.before
             /\ IF stored(repository.id)
                THEN /\ Len(repository.found) = 1
                     /\ repository.found[1].id = repository.id
                     /\ \E i \in 1..Len(repository.items) :
                           repository.items[i] = repository.found[1]
                ELSE repository.found = <<>>

\* A save that replaced the first of two stored items by another item of
\* the same id.
C29_Witness ==
    /\ repository.op = "save"
    /\ Len(repository.before) = 2
    /\ repository.before[1].id = repository.id
    /\ repository.before[1] # repository.item[1]
    /\ repository.items[1] = repository.item[1]
    /\ Len(repository.items) = 2

====
